---- MODULE Spec2Model ----
(***************************************************************************)
(* A model of the topic display of the Squad terminal application:         *)
(* the TopicWidget class (src/squad/widgets/topic.py) with its class-level *)
(* topic and topic_renderers, the key bindings and the action_topic        *)
(* handler of the Squad application (src/squad/squad.py), and the timer    *)
(* that re-renders the widget.                                             *)
(*                                                                         *)
(* Handlers of the application run on one event loop: a handler runs from  *)
(* its start to its return before the next one starts.  render is a plain  *)
(* (synchronous) method, so from the moment it is entered until it returns *)
(* the event loop is occupied; that is modelled by the variable loop.      *)
(***************************************************************************)
EXTENDS Naturals, Sequences, FiniteSets

VARIABLES
    topic_renderers,  \* TopicWidget.topic_renderers: topic key -> renderer
    topic,            \* TopicWidget.topic
    warnings,         \* number of warning() calls made so far
    lastArg,          \* history: argument of the most recent set_topic call
    callBit,          \* history: flips on every set_topic call
    interval,         \* period of the refresh timer (0: no timer set)
    loop,             \* what occupies the event loop: "idle" or "render"
    rendering,        \* the renderer whose render() is in progress, or NoRenderer
    invoked,          \* number of renderer render() invocations
    published,        \* number of panels render has returned to the display
    display,          \* the panel on the display: <<renderer, kind>> or NoPanel
    app,              \* "running", or "crashed" after an unhandled exception
    fault,            \* the unhandled exception, or "none"
    cpc,              \* concurrent callers of set_topic: position of each
    carg,             \* concurrent callers of set_topic: argument of each
    got,              \* the value a reader obtained after the concurrent calls
    lastKey,          \* history: the key whose press made the most recent set_topic call, or NoKey
    due,              \* periods of the refresh timer that elapsed and are not yet served
    inflight,         \* number of render calls entered and not yet left
    script,           \* a sequence of set_topic arguments to be applied in order
    pos,              \* how many arguments of script have been applied
    mainpc,           \* position of main: "load", "set_dm", "set_as", "run", "return", "exit"
    environment,      \* main's local environment, or NoEnv
    ENVIRONMENT,      \* environment.py's module-level _ENVIRONMENT, or NoEnv (None)
    env_got,          \* the value the most recent get_environment returned, or NoEnv
    dm_api_url,       \* the URL given to DmApi.set_api_url, or NoUrl
    as_api_url,       \* the URL given to AsApi.set_api_url, or NoUrl
    exit_status       \* the status main left the process with (read when mainpc is "return" or "exit")

\* the variables of main and of the environment holder
startvars == <<mainpc, environment, ENVIRONMENT, env_got, dm_api_url,
               as_api_url, exit_status>>

\* the variables of a scripted sequence of set_topic calls
seqvars == <<script, pos>>

vars == <<topic_renderers, topic, warnings, lastArg, callBit, interval, loop,
          rendering, invoked, published, display, app, fault, cpc, carg, got,
          lastKey, due, inflight, script, pos, startvars>>

-----------------------------------------------------------------------------
(* Bounds of the model *)

\* set_topic calls with an unsupported argument are explored up to this many
MaxWarnings == 2
\* renderer invocations are explored up to this many
MaxTicks == 2
\* elapsed timer periods waiting to be served are explored up to this many
MaxDue == 2
\* scripted sequences of set_topic calls are explored up to this length
MaxScript == 3

-----------------------------------------------------------------------------
(* The program's constants *)

\* topic.py:27, the class-level default of TopicWidget.topic
DefaultTopic == "instances"

\* topic.py:28-40, the class-level dictionary TopicWidget.topic_renderers
\* (each value stands for the renderer instance of that class)
InitialRenderers ==
    [t \in {"assets", "datasets", "defined-exchange-rates", "instances",
            "merchants", "products", "projects", "personal-units",
            "service-errors", "undefined-exchange-rates", "units"} |->
        CASE t = "assets" -> "Assets"
          [] t = "datasets" -> "Datasets"
          [] t = "defined-exchange-rates" -> "DefinedExchangeRates"
          [] t = "instances" -> "Instances"
          [] t = "merchants" -> "Merchants"
          [] t = "products" -> "Products"
          [] t = "projects" -> "Projects"
          [] t = "personal-units" -> "PersonalUnits"
          [] t = "service-errors" -> "ServiceErrors"
          [] t = "undefined-exchange-rates" -> "UndefinedExchangeRates"
          [] t = "units" -> "Units"]

\* the bindings with the topic of the key o misspelt
bindings_typo ==
    [k \in {"a", "d", "i", "m", "n", "o", "p", "r", "s", "t", "u"} |->
        CASE k = "a" -> "assets"
          [] k = "d" -> "datasets"
          [] k = "i" -> "instances"
          [] k = "m" -> "merchants"
          [] k = "n" -> "personal-units"
          [] k = "o" -> "unit"
          [] k = "p" -> "projects"
          [] k = "r" -> "defined-exchange-rates"
          [] k = "s" -> "service-errors"
          [] k = "t" -> "products"
          [] k = "u" -> "undefined-exchange-rates"]

\* squad.py:31-41, the keys bound to a topic action in Squad.on_load
\* (the key Q, squad.py:28, is bound to quit and names no topic)
bindings ==
    [k \in {"a", "d", "i", "m", "n", "o", "p", "r", "s", "t", "u"} |->
        CASE k = "a" -> "assets"
          [] k = "d" -> "datasets"
          [] k = "i" -> "instances"
          [] k = "m" -> "merchants"
          [] k = "n" -> "personal-units"
          [] k = "o" -> "units"
          [] k = "p" -> "projects"
          [] k = "r" -> "defined-exchange-rates"
          [] k = "s" -> "service-errors"
          [] k = "t" -> "products"
          [] k = "u" -> "undefined-exchange-rates"]

\* topic.py:55, the period given to set_interval
RefreshPeriod == 2

-----------------------------------------------------------------------------
(* Inputs *)

\* strings that are no key of the registry
UnsupportedArgs == {"bogus", "Assets"}

\* the arguments set_topic is called with
TopicArgs == DOMAIN InitialRenderers \cup UnsupportedArgs

\* how a renderer's render() ends: with a panel of fetched data, with a
\* panel of cached or placeholder content after a failed fetch, or with an
\* exception it did not handle
RendererOutcomes == {"data", "fallback", "raise"}

NoCall == "<no call>"
NoRenderer == "<no renderer>"
NoPanel == <<"<no panel>">>
NoRead == "<not read>"
NoKey == "<no key>"
NoEnv == "<None>"
NoUrl == "<no url>"

\* the environments an environment file can name
Environments == {"local", "production"}

\* squad.py:125-126, environment.dm_api() and environment.as_api()
dm_api(e) == <<"dm-api", e>>
as_api(e) == <<"as-api", e>>

\* the two concurrent callers of set_topic
Actors == {1, 2}

-----------------------------------------------------------------------------
(* TopicWidget.set_topic *)

\* a membership test that accepts every string
Supported_Always(t) == TRUE

\* topic.py:47, the membership test (negated in the source)
Supported(t) == t \in DOMAIN topic_renderers

\* set_topic assigning a local name instead of the class attribute
set_topic_local(t) ==
    /\ IF ~Supported(t)
       THEN warnings' = warnings + 1
       ELSE UNCHANGED warnings
    /\ UNCHANGED topic
    /\ lastArg' = t
    /\ callBit' = 1 - callBit
    /\ UNCHANGED topic_renderers

\* set_topic without the return after the warning
set_topic_no_return(t) ==
    /\ IF ~Supported(t)
       THEN warnings' = warnings + 1
       ELSE UNCHANGED warnings
    /\ topic' = t
    /\ lastArg' = t
    /\ callBit' = 1 - callBit
    /\ UNCHANGED topic_renderers

\* set_topic registering an unknown topic instead of rejecting it
set_topic_registers(t) ==
    /\ IF ~Supported(t)
       THEN /\ warnings' = warnings + 1
            /\ topic_renderers' =
                  [x \in DOMAIN topic_renderers \cup {t} |->
                      IF x = t THEN "Unknown" ELSE topic_renderers[x]]
            /\ UNCHANGED topic
       ELSE /\ topic' = t
            /\ UNCHANGED <<warnings, topic_renderers>>
    /\ lastArg' = t
    /\ callBit' = 1 - callBit

\* set_topic falling back to the default topic on an unknown argument
set_topic_resets(t) ==
    /\ IF ~Supported(t)
       THEN /\ warnings' = warnings + 1
            /\ topic' = DefaultTopic
       ELSE /\ topic' = t
            /\ UNCHANGED warnings
    /\ lastArg' = t
    /\ callBit' = 1 - callBit
    /\ UNCHANGED topic_renderers

\* topic.py:42-50, set_topic as one uninterrupted call
set_topic(t) ==
    /\ IF ~Supported(t)
       THEN /\ warnings' = warnings + 1
            /\ UNCHANGED topic
       ELSE /\ topic' = t
            /\ UNCHANGED warnings
    /\ lastArg' = t
    /\ callBit' = 1 - callBit
    /\ UNCHANGED topic_renderers

-----------------------------------------------------------------------------
(* The application on its event loop *)

Init ==
    /\ topic_renderers = InitialRenderers
    /\ topic = DefaultTopic
    /\ warnings = 0
    /\ lastArg = NoCall
    /\ callBit = 0
    /\ interval = 0
    /\ loop = "idle"
    /\ rendering = NoRenderer
    /\ invoked = 0
    /\ published = 0
    /\ display = NoPanel
    /\ app = "running"
    /\ fault = "none"
    /\ cpc = [a \in Actors |-> "idle"]
    /\ carg = [a \in Actors |-> NoCall]
    /\ got = NoRead
    /\ lastKey = NoKey
    /\ due = 0
    /\ inflight = 0
    /\ script = <<>>
    /\ pos = 0
    /\ mainpc = "run"
    /\ environment \in Environments
    /\ ENVIRONMENT = NoEnv
    /\ env_got = NoEnv
    /\ dm_api_url = dm_api(environment)
    /\ as_api_url = as_api(environment)
    /\ exit_status = 0

\* topic.py:52-55, TopicWidget.on_mount: start the refresh timer
on_mount ==
    /\ app = "running"
    /\ loop = "idle"
    /\ interval = 0
    /\ interval' = RefreshPeriod
    /\ UNCHANGED <<topic_renderers, topic, warnings, lastArg, callBit, loop,
                   rendering, invoked, published, display, app, fault,
                   cpc, carg, got>>
    /\ UNCHANGED <<lastKey, due, inflight, seqvars, startvars>>

\* squad.py:94-100, Squad.action_topic: a coroutine of the event loop
action_topic(t) ==
    /\ app = "running"
    /\ loop = "idle"
    /\ ~Supported(t) => warnings < MaxWarnings
    /\ set_topic(t)
    /\ UNCHANGED <<interval, loop, rendering, invoked, published, display,
                   app, fault, cpc, carg, got>>
    /\ UNCHANGED <<due, inflight, seqvars, startvars>>

\* squad.py:31-41, a bound key is pressed: its action string is run
KeyPress(k) ==
    /\ k \in DOMAIN bindings
    /\ action_topic(bindings[k])
    /\ lastKey' = k

\* squad.py:94-100 with a topic given directly, not through a bound key
topic_action(t) ==
    /\ action_topic(t)
    /\ lastKey' = NoKey

\* topic.py:55, a period of the refresh timer elapses; time passes whether
\* or not the event loop is occupied
timer_elapse ==
    /\ app = "running"
    /\ interval > 0
    /\ due < MaxDue
    /\ due' = due + 1
    /\ UNCHANGED <<topic_renderers, topic, warnings, lastArg, callBit,
                   interval, loop, rendering, invoked, published, display,
                   app, fault, cpc, carg, got, lastKey, inflight, seqvars,
                   startvars>>

\* timer callbacks running on a thread of their own
loop_free_threaded == TRUE

\* topic.py:55-57, the timer's refresh and the synchronous render run on
\* the event loop, one handler at a time
loop_free == loop = "idle"

\* a lookup of the renderer of the default topic
render_lookup_default == topic_renderers[DefaultTopic]

\* topic.py:61, the renderer looked up for the prevailing topic
render_lookup == topic_renderers[topic]

\* topic.py:57-61, render is entered on a refresh of the timer (topic.py:55):
\* the assertion, the lookup and the call of the renderer's render()
render_begin ==
    /\ app = "running"
    /\ loop_free
    /\ interval > 0
    /\ due > 0
    /\ invoked < MaxTicks
    /\ \E d \in {0, due - 1} : due' = d
    /\ IF topic \in DOMAIN topic_renderers
       THEN /\ rendering' = render_lookup
            /\ invoked' = invoked + 1
            /\ inflight' = inflight + 1
            /\ loop' = "render"
            /\ UNCHANGED <<app, fault>>
       ELSE /\ app' = "crashed"
            /\ fault' = "AssertionError"
            /\ UNCHANGED <<rendering, invoked, inflight, loop>>
    /\ UNCHANGED <<topic_renderers, topic, warnings, lastArg, callBit,
                   interval, published, display, cpc, carg, got>>
    /\ UNCHANGED <<lastKey, seqvars, startvars>>

\* render handing its panel to the display twice
render_end_twice(outcome) ==
    /\ app = "running"
    /\ loop = "render"
    /\ IF outcome = "raise"
       THEN /\ app' = "crashed"
            /\ fault' = "RendererError"
            /\ UNCHANGED <<published, display>>
       ELSE /\ published' = published + 2
            /\ display' = <<rendering, outcome>>
            /\ UNCHANGED <<app, fault>>
    /\ loop' = "idle"
    /\ rendering' = NoRenderer
    /\ UNCHANGED <<topic_renderers, topic, warnings, lastArg, callBit,
                   interval, invoked, cpc, carg, got>>
    /\ inflight' = inflight - 1
    /\ UNCHANGED <<lastKey, due, seqvars, startvars>>

\* render falling back to the default topic when the renderer did not
\* deliver fetched data
render_end_resets(outcome) ==
    /\ app = "running"
    /\ loop = "render"
    /\ IF outcome = "raise"
       THEN /\ app' = "crashed"
            /\ fault' = "RendererError"
            /\ UNCHANGED <<published, display>>
       ELSE /\ published' = published + 1
            /\ display' = <<rendering, outcome>>
            /\ UNCHANGED <<app, fault>>
    /\ topic' = IF outcome = "data" THEN topic ELSE DefaultTopic
    /\ loop' = "idle"
    /\ rendering' = NoRenderer
    /\ UNCHANGED <<topic_renderers, warnings, lastArg, callBit,
                   interval, invoked, cpc, carg, got>>
    /\ inflight' = inflight - 1
    /\ UNCHANGED <<lastKey, due, seqvars, startvars>>

\* topic.py:61, the renderer's render() ends and render returns its panel,
\* or the renderer's exception leaves render: nothing in render, in the
\* widget or in main (squad.py:129) handles it
render_end(outcome) ==
    /\ app = "running"
    /\ loop = "render"
    /\ IF outcome = "raise"
       THEN /\ app' = "crashed"
            /\ fault' = "RendererError"
            /\ UNCHANGED <<published, display>>
       ELSE /\ published' = published + 1
            /\ display' = <<rendering, outcome>>
            /\ UNCHANGED <<app, fault>>
    /\ loop' = "idle"
    /\ rendering' = NoRenderer
    /\ UNCHANGED <<topic_renderers, topic, warnings, lastArg, callBit,
                   interval, invoked, cpc, carg, got>>
    /\ inflight' = inflight - 1
    /\ UNCHANGED <<lastKey, due, seqvars, startvars>>

Next ==
    \/ on_mount
    \/ \E t \in TopicArgs : topic_action(t)
    \/ \E k \in DOMAIN bindings : KeyPress(k)
    \/ timer_elapse
    \/ render_begin
    \/ \E outcome \in RendererOutcomes : render_end(outcome)

Spec == Init /\ [][Next]_vars

-----------------------------------------------------------------------------
(* set_topic called by two concurrent actors, step by step *)

\* as Init, from any current topic
InitConc ==
    /\ topic_renderers = InitialRenderers
    /\ topic \in DOMAIN InitialRenderers
    /\ warnings = 0
    /\ lastArg = NoCall
    /\ callBit = 0
    /\ interval = 0
    /\ loop = "idle"
    /\ rendering = NoRenderer
    /\ invoked = 0
    /\ published = 0
    /\ display = NoPanel
    /\ app = "running"
    /\ fault = "none"
    /\ cpc = [a \in Actors |-> "idle"]
    /\ carg = [a \in Actors |-> NoCall]
    /\ got = NoRead
    /\ lastKey = NoKey
    /\ due = 0
    /\ inflight = 0
    /\ script = <<>>
    /\ pos = 0
    /\ mainpc = "run"
    /\ environment \in Environments
    /\ ENVIRONMENT = NoEnv
    /\ env_got = NoEnv
    /\ dm_api_url = dm_api(environment)
    /\ as_api_url = as_api(environment)
    /\ exit_status = 0

\* topic.py:43, actor a enters set_topic(t)
conc_call(a, t) ==
    /\ cpc[a] = "idle"
    /\ cpc' = [cpc EXCEPT ![a] = "check"]
    /\ carg' = [carg EXCEPT ![a] = t]
    /\ UNCHANGED <<topic_renderers, topic, warnings, lastArg, callBit,
                   interval, loop, rendering, invoked, published, display,
                   app, fault, got>>
    /\ UNCHANGED <<lastKey, due, inflight, seqvars, startvars>>

\* topic.py:47-49, actor a's membership test, and the warning and return
conc_check(a) ==
    /\ cpc[a] = "check"
    /\ IF ~Supported(carg[a])
       THEN /\ warnings' = warnings + 1
            /\ cpc' = [cpc EXCEPT ![a] = "done"]
       ELSE /\ cpc' = [cpc EXCEPT ![a] = "assign"]
            /\ UNCHANGED warnings
    /\ UNCHANGED <<topic_renderers, topic, lastArg, callBit, interval, loop,
                   rendering, invoked, published, display, app, fault,
                   carg, got>>
    /\ UNCHANGED <<lastKey, due, inflight, seqvars, startvars>>

\* an assignment that is lost
conc_assign_lost(a) ==
    /\ cpc[a] = "assign"
    /\ cpc' = [cpc EXCEPT ![a] = "done"]
    /\ UNCHANGED <<topic_renderers, topic, warnings, lastArg, callBit,
                   interval, loop, rendering, invoked, published, display,
                   app, fault, carg, got>>
    /\ UNCHANGED <<lastKey, due, inflight, seqvars, startvars>>

\* topic.py:50, actor a's assignment
conc_assign(a) ==
    /\ cpc[a] = "assign"
    /\ topic' = carg[a]
    /\ cpc' = [cpc EXCEPT ![a] = "done"]
    /\ UNCHANGED <<topic_renderers, warnings, lastArg, callBit, interval,
                   loop, rendering, invoked, published, display, app, fault,
                   carg, got>>
    /\ UNCHANGED <<lastKey, due, inflight, seqvars, startvars>>

\* topic.py:60-61, a read of TopicWidget.topic after both calls returned
conc_read ==
    /\ \A a \in Actors : cpc[a] = "done"
    /\ got = NoRead
    /\ got' = topic
    /\ UNCHANGED <<topic_renderers, topic, warnings, lastArg, callBit,
                   interval, loop, rendering, invoked, published, display,
                   app, fault, cpc, carg>>
    /\ UNCHANGED <<lastKey, due, inflight, seqvars, startvars>>

NextConc ==
    \/ \E a \in Actors : \E t \in TopicArgs : conc_call(a, t)
    \/ \E a \in Actors : conc_check(a)
    \/ \E a \in Actors : conc_assign(a)
    \/ conc_read

SpecConc == InitConc /\ [][NextConc]_vars

-----------------------------------------------------------------------------
(* A sequence of set_topic calls, one after the other *)

\* the sequences of at most MaxScript arguments
Scripts == UNION {[1..n -> TopicArgs] : n \in 0..MaxScript}

\* as Init, with the calls that are going to be made
InitSeq ==
    /\ topic_renderers = InitialRenderers
    /\ topic = DefaultTopic
    /\ warnings = 0
    /\ lastArg = NoCall
    /\ callBit = 0
    /\ interval = 0
    /\ loop = "idle"
    /\ rendering = NoRenderer
    /\ invoked = 0
    /\ published = 0
    /\ display = NoPanel
    /\ app = "running"
    /\ fault = "none"
    /\ cpc = [a \in Actors |-> "idle"]
    /\ carg = [a \in Actors |-> NoCall]
    /\ got = NoRead
    /\ script \in Scripts
    /\ lastKey = NoKey
    /\ due = 0
    /\ inflight = 0
    /\ pos = 0
    /\ mainpc = "run"
    /\ environment \in Environments
    /\ ENVIRONMENT = NoEnv
    /\ env_got = NoEnv
    /\ dm_api_url = dm_api(environment)
    /\ as_api_url = as_api(environment)
    /\ exit_status = 0

\* topic.py:42-50, the next call of the sequence: set_topic(script[pos + 1])
seq_call ==
    /\ pos < Len(script)
    /\ set_topic(script[pos + 1])
    /\ pos' = pos + 1
    /\ UNCHANGED <<interval, loop, rendering, invoked, published, display,
                   app, fault, cpc, carg, got, lastKey, due, inflight,
                   script, startvars>>

NextSeq == seq_call

SpecSeq == InitSeq /\ [][NextSeq]_vars

-----------------------------------------------------------------------------
(* The program from its entry point *)

\* what Environment() does: it returns one of the environments or raises
LoadResults == Environments \cup {"raise"}

\* the state when main is entered: nothing loaded, no application yet
InitMain ==
    /\ topic_renderers = InitialRenderers
    /\ topic = DefaultTopic
    /\ warnings = 0
    /\ lastArg = NoCall
    /\ callBit = 0
    /\ interval = 0
    /\ loop = "idle"
    /\ rendering = NoRenderer
    /\ invoked = 0
    /\ published = 0
    /\ display = NoPanel
    /\ app = "not started"
    /\ fault = "none"
    /\ cpc = [a \in Actors |-> "idle"]
    /\ carg = [a \in Actors |-> NoCall]
    /\ got = NoRead
    /\ lastKey = NoKey
    /\ due = 0
    /\ inflight = 0
    /\ script = <<>>
    /\ pos = 0
    /\ mainpc = "load"
    /\ environment = NoEnv
    /\ ENVIRONMENT = NoEnv
    /\ env_got = NoEnv
    /\ dm_api_url = NoUrl
    /\ as_api_url = NoUrl
    /\ exit_status = 0

\* main going on after a failed load of the environment
main_load_no_exit(result) ==
    /\ mainpc = "load"
    /\ environment' = IF result = "raise" THEN NoEnv ELSE result
    /\ mainpc' = "set_dm"
    /\ UNCHANGED exit_status
    /\ UNCHANGED <<ENVIRONMENT, env_got, dm_api_url, as_api_url, app, fault>>
    /\ UNCHANGED <<topic_renderers, topic, warnings, lastArg, callBit,
                   interval, loop, rendering, invoked, published, display,
                   cpc, carg, got, lastKey, due, inflight, seqvars>>

\* squad.py:117-121, main loads the environment, or prints the error and
\* exits with status 1
main_load(result) ==
    /\ mainpc = "load"
    /\ IF result = "raise"
       THEN /\ mainpc' = "exit"
            /\ exit_status' = 1
            /\ UNCHANGED environment
       ELSE /\ environment' = result
            /\ mainpc' = "set_dm"
            /\ UNCHANGED exit_status
    /\ UNCHANGED <<ENVIRONMENT, env_got, dm_api_url, as_api_url, app, fault>>
    /\ UNCHANGED <<topic_renderers, topic, warnings, lastArg, callBit,
                   interval, loop, rendering, invoked, published, display,
                   cpc, carg, got, lastKey, due, inflight, seqvars>>

\* squad.py:125, DmApi.set_api_url(environment.dm_api(), ...)
main_set_dm ==
    /\ mainpc = "set_dm"
    /\ dm_api_url' = dm_api(environment)
    /\ mainpc' = "set_as"
    /\ UNCHANGED <<environment, ENVIRONMENT, env_got, as_api_url,
                   exit_status, app, fault>>
    /\ UNCHANGED <<topic_renderers, topic, warnings, lastArg, callBit,
                   interval, loop, rendering, invoked, published, display,
                   cpc, carg, got, lastKey, due, inflight, seqvars>>

\* squad.py:126, AsApi.set_api_url(environment.as_api(), ...)
main_set_as ==
    /\ mainpc = "set_as"
    /\ as_api_url' = as_api(environment)
    /\ mainpc' = "start"
    /\ UNCHANGED <<environment, ENVIRONMENT, env_got, dm_api_url,
                   exit_status, app, fault>>
    /\ UNCHANGED <<topic_renderers, topic, warnings, lastArg, callBit,
                   interval, loop, rendering, invoked, published, display,
                   cpc, carg, got, lastKey, due, inflight, seqvars>>

\* squad.py:129, Squad.run: the application starts
main_run ==
    /\ mainpc = "start"
    /\ app' = "running"
    /\ mainpc' = "run"
    /\ UNCHANGED <<environment, ENVIRONMENT, env_got, dm_api_url,
                   as_api_url, exit_status, fault>>
    /\ UNCHANGED <<topic_renderers, topic, warnings, lastArg, callBit,
                   interval, loop, rendering, invoked, published, display,
                   cpc, carg, got, lastKey, due, inflight, seqvars>>

\* squad.py:28 and 129-132, the key Q ends the application and main
\* returns 0
quit ==
    /\ app = "running"
    /\ loop = "idle"
    /\ app' = "exited"
    /\ mainpc' = "return"
    /\ exit_status' = 0
    /\ UNCHANGED <<environment, ENVIRONMENT, env_got, dm_api_url,
                   as_api_url, fault>>
    /\ UNCHANGED <<topic_renderers, topic, warnings, lastArg, callBit,
                   interval, loop, rendering, invoked, published, display,
                   cpc, carg, got, lastKey, due, inflight, seqvars>>

\* environment.py:10-13, set_environment; no code under src/ calls it
set_environment(chosen_env) ==
    /\ ENVIRONMENT' = chosen_env
    /\ UNCHANGED <<mainpc, environment, env_got, dm_api_url, as_api_url,
                   exit_status, app, fault>>
    /\ UNCHANGED <<topic_renderers, topic, warnings, lastArg, callBit,
                   interval, loop, rendering, invoked, published, display,
                   cpc, carg, got, lastKey, due, inflight, seqvars>>

\* environment.py:16-20, get_environment called by a handler of the running
\* application: the assertion, then the return of _ENVIRONMENT
get_environment ==
    /\ app = "running"
    /\ loop = "idle"
    /\ IF ENVIRONMENT = NoEnv
       THEN /\ app' = "crashed"
            /\ fault' = "AssertionError in get_environment"
            /\ UNCHANGED env_got
       ELSE /\ env_got' = ENVIRONMENT
            /\ UNCHANGED <<app, fault>>
    /\ UNCHANGED <<mainpc, environment, ENVIRONMENT, dm_api_url, as_api_url,
                   exit_status>>
    /\ UNCHANGED <<topic_renderers, topic, warnings, lastArg, callBit,
                   interval, loop, rendering, invoked, published, display,
                   cpc, carg, got, lastKey, due, inflight, seqvars>>

NextMain ==
    \/ \E result \in LoadResults : main_load(result)
    \/ main_set_dm
    \/ main_set_as
    \/ main_run
    \/ quit
    \/ get_environment
    \/ Next

SpecMain == InitMain /\ [][NextMain]_vars

-----------------------------------------------------------------------------
(* Properties *)

Keys == DOMAIN InitialRenderers

\* C1: in every reachable state TopicWidget.topic is a key of
\* TopicWidget.topic_renderers, and the assertion at the start of render
\* has never failed.
C1_TopicIsRegistered ==
    /\ topic \in DOMAIN topic_renderers
    /\ fault # "AssertionError"

\* a render entered right after a set_topic with an unsupported argument
C1_Witness ==
    /\ lastArg \in UnsupportedArgs
    /\ loop = "render"

\* C2: after set_topic(t) with t a key of the registry, and until the next
\* set_topic, the topic read is t.
C2_SetThenGet == lastArg \in Keys => topic = lastArg

\* a render that read the topic after set_topic("units") from another topic
C2_Witness ==
    /\ lastArg = "units"
    /\ rendering = "Units"
    /\ display = <<"Assets", "data">>

\* C3: a set_topic with an unsupported argument leaves the topic unchanged
\* and emits exactly one warning; a set_topic with a supported argument
\* emits none.
C3_UnsupportedRejected ==
    [][callBit' # callBit =>
          IF lastArg' \in Keys
          THEN warnings' = warnings
          ELSE topic' = topic /\ warnings' = warnings + 1]_vars

\* set_topic("bogus") was rejected while the topic was "assets"
C3_Witness ==
    /\ lastArg = "bogus"
    /\ warnings = 1
    /\ topic = "assets"

\* C4: an exception of the active topic's renderer is caught at the tick:
\* it never leaves render, and the application keeps running.
C4_RenderFailureContained ==
    /\ fault # "RendererError"
    /\ app = "running"

\* C5: every entry of render invokes the renderer registered for the topic
\* current at that moment, and no other: the effect of every earlier
\* set_topic is seen, and a rejected argument selects no renderer.
C5_TickRendersCurrentTopic ==
    [][invoked' # invoked =>
          /\ topic \in Keys
          /\ rendering' = InitialRenderers[topic]
          /\ lastArg \in Keys => rendering' = InitialRenderers[lastArg]]_vars

\* the tick after set_topic("assets") invokes the renderer of "assets",
\* after an earlier set_topic with an unsupported argument
C5_Witness ==
    /\ warnings > 0
    /\ lastArg = "assets"
    /\ rendering = "Assets"

C7_InputNeverBlocked ==
    loop = "render" => ENABLED (\E k \in DOMAIN bindings : KeyPress(k))

\* C8: after two concurrent set_topic calls with supported arguments (such
\* as "assets" and "units") have both returned, a read of the topic yields
\* the argument of one of them.
C8_ConcurrentSetTopic ==
    (got # NoRead /\ \A a \in Actors : carg[a] \in Keys) =>
        got \in {carg[a] : a \in Actors}

\* set_topic("assets") and set_topic("units") ran concurrently from the
\* topic "instances"; the read yields "assets"
C8_Witness ==
    /\ carg[1] = "assets"
    /\ carg[2] = "units"
    /\ got = "assets"

\* C9: the registry is the one built at construction in every reachable
\* state.
C9_RegistryImmutable == topic_renderers = InitialRenderers

\* a rejected set_topic, an accepted set_topic and a completed tick
C9_Witness ==
    /\ warnings > 0
    /\ topic # DefaultTopic
    /\ published > 0

\* C10: the topic starts as "instances" and a tick before any set_topic
\* renders "instances"; every supported topic is one set_topic away from
\* every state; and in every reachable state a set_topic or a step of a
\* refresh tick is enabled.
C10_NoTerminalState ==
    /\ lastArg = NoCall =>
          /\ topic = DefaultTopic
          /\ rendering \in {NoRenderer, InitialRenderers[DefaultTopic]}
    /\ \A t \in Keys : ENABLED (set_topic(t) /\ topic' = t)
    /\ ENABLED ( \/ \E t \in TopicArgs : action_topic(t)
                 \/ render_begin
                 \/ \E outcome \in RendererOutcomes : render_end(outcome) )

\* C11: a set_topic call made through a bound key is accepted: the topic
\* becomes the identifier the key names, which is a key of the registry,
\* and no warning is emitted.
C11_BoundKeysAccepted ==
    [][(callBit' # callBit /\ lastKey' # NoKey) =>
          /\ lastArg' \in Keys
          /\ topic' = lastArg'
          /\ warnings' = warnings]_vars

\* the key n was pressed while another topic was displayed
C11_Witness ==
    /\ lastKey = "n"
    /\ topic = "personal-units"
    /\ display = <<"Instances", "data">>

\* C12: the topic is written only by set_topic: a step that is no set_topic
\* call (the timer elapsing, render being entered, render returning its
\* panel or failing) leaves the topic unchanged.
C12_OnlySetTopicWrites ==
    [][callBit' = callBit => topic' = topic]_vars

\* with the topic "units", one render returned its panel and the next failed
C12_Witness ==
    /\ topic = "units"
    /\ published > 0
    /\ fault = "RendererError"

\* the last element of s that is a key of the registry, "instances" if none
RECURSIVE LastAccepted(_)
LastAccepted(s) ==
    IF s = <<>>
    THEN "instances"
    ELSE IF s[Len(s)] \in Keys
         THEN s[Len(s)]
         ELSE LastAccepted(SubSeq(s, 1, Len(s) - 1))

C15_StartAfterEnvironment ==
    /\ (app # "not started" \/ lastArg # NoCall \/ interval > 0 \/ invoked > 0) =>
          /\ environment \in Environments
          /\ dm_api_url = dm_api(environment)
          /\ as_api_url = as_api(environment)
    /\ mainpc = "exit" =>
          /\ exit_status = 1
          /\ dm_api_url = NoUrl
          /\ as_api_url = NoUrl
          /\ app = "not started"
          /\ lastArg = NoCall
          /\ invoked = 0

\* a key event and a completed tick of the application main started
C15_Witness ==
    /\ mainpc = "run"
    /\ lastKey = "a"
    /\ published > 0

\* C16: while the application runs the environment holder is set (to the
\* environment main loaded), so no get_environment call fails its
\* assertion and each returns that environment.
C16_EnvironmentIsSet ==
    /\ app = "running" => ENVIRONMENT = environment /\ ENVIRONMENT # NoEnv
    /\ fault # "AssertionError in get_environment"

====
